---- MODULE Spec2Model ----
(***************************************************************************)
(* State-machine model of newspaper_scraper: the Database store            *)
(* (database.py), the retry wrapper (utils/utils.py) and the drivers of    *)
(* NewspaperManager (scraper.py).  The site adapter, goose3, spaCy and     *)
(* SQLite are the environment.                                             *)
(*                                                                         *)
(* Encodings.  A URL is a sequence of characters, so that                  *)
(* url.split('?')[0] is computed.  A timestamp is a number of hours since  *)
(* day 0, 00:00 (its calendar date is hours \div 24); NaT is -1.  The      *)
(* edition_from and edition_to arguments are sequences of characters, so   *)
(* that re.match, split('-') and int() are computed; an edition label      *)
(* f'{year}-{edition}' the code builds from two integers is the pair       *)
(* <<year, edition>>; the missing label (NaN) is <<>>.  In memory the Public cell is one of      *)
(* "None", "True", "False"; in the SQLite file it is "NULL", "1" or "0".   *)
(***************************************************************************)
EXTENDS Integers, Sequences, FiniteSets, TLC

VARIABLES
    db,          \* Database: the in-memory frames, the save timers and the SQLite file
    session,     \* "none": no process holds the store; "open": inside `with manager:`
    newspaper_id,\* NewspaperManager.newspaper_id of the running manager
    pc,          \* position of the driver call: "idle", "running", "retry_wait"
    call,        \* the driver call in progress: its arguments, snapshot and position
    settings,    \* settings.retry_on_exception
    site,        \* the site adapter's archive pages: unit number -> listing
    history,     \* history variables the claims are stated over
    selenium_driver, \* NewspaperManager._selenium_driver: "None", "open" or "quit"
    used         \* driver calls and sessions started so far (bounds the model)

vars == <<db, session, newspaper_id, pc, call, settings, site, history, used,
          selenium_driver>>

----------------------------------------------------------------------------
(* Bounds and program constants *)

\* settings.save_interval
save_interval == 60

\* the model's clock advances in steps of half a save interval
half_interval == save_interval \div 2

\* index requests cover the days (and editions) 1..LastUnit
LastUnit == 2

\* at most MaxCalls driver calls and MaxSessions sessions are started
MaxCalls == 3
MaxIndexCalls == 2
MaxSessions == 2

\* time.sleep(100) of the retry wrapper
retry_sleep == 100

\* default of index_articles_by_edition(editions_per_year=55), scaled to the model
editions_per_year == 2

Publishers == {"x", "y"}
Years == {2020}
Units == 1..LastUnit

A == <<"a">>
B == <<"b">>
AQ == <<"a", "?", "q">>

NaT == -1
NoEdition == <<>>

----------------------------------------------------------------------------
(* Pure helpers *)

Range(s) == {s[i] : i \in 1..Len(s)}

\* url.split('?')[0]: the characters before the first '?'
RECURSIVE strip_query(_)
strip_query(url) ==
    IF url = <<>> \/ Head(url) = "?" THEN <<>>
    ELSE <<Head(url)>> \o strip_query(Tail(url))

\* a check that takes every datetime as timezone-aware
tzinfo_is_not_None_Unchecked(pub_date) == TRUE

\* pub_date.tzinfo is not None: a naive datetime has no utcoffset
tzinfo_is_not_None(pub_date) == "utcoffset" \in DOMAIN pub_date

\* pub_date.astimezone(dt.timezone.utc).replace(tzinfo=None); astimezone takes a
\* naive datetime as local time of the system, whose clock is set to UTC
to_utc(pub_date) ==
    IF "utcoffset" \in DOMAIN pub_date THEN pub_date.local - pub_date.utcoffset
    ELSE pub_date.local

\* Timestamp.date()
date_of(ts) == IF ts = NaT THEN NaT ELSE ts \div 24

\* df.index: the URL column, in row order
index_of(df) == [i \in 1..Len(df) |-> df[i].URL]

\* df.index.is_unique
is_unique(df) == \A i, j \in 1..Len(df) : df[i].URL = df[j].URL => i = j

\* df.at[url, column] = value (on an index that is not unique, every row of the label)
at_set(df, url, column, value) ==
    [i \in 1..Len(df) |->
        IF df[i].URL = url THEN [df[i] EXCEPT ![column] = value] ELSE df[i]]

Digits == <<"0", "1", "2", "3", "4", "5", "6", "7", "8", "9">>

\* str.isdigit of one character
is_digit(ch) == ch \in Range(Digits)

\* int(text) of a text of decimal digits
RECURSIVE int(_)
int(text) ==
    IF text = <<>> THEN 0
    ELSE int(SubSeq(text, 1, Len(text) - 1)) * 10
           + (CHOOSE v \in 0..9 : Digits[v + 1] = text[Len(text)])

\* int(text) raises ValueError: invalid literal
int_raises(text) == text = <<>> \/ \E k \in 1..Len(text) : ~is_digit(text[k])

\* str(n) of a natural number
RECURSIVE str(_)
str(n) == IF n < 10 THEN <<Digits[n + 1]>> ELSE str(n \div 10) \o <<Digits[(n % 10) + 1]>>

\* text.split('-')
RECURSIVE split(_)
split(text) ==
    IF \A k \in 1..Len(text) : text[k] # "-" THEN <<text>>
    ELSE LET k == CHOOSE j \in 1..Len(text) :
                      text[j] = "-" /\ \A h \in 1..(j - 1) : text[h] # "-"
         IN  <<SubSeq(text, 1, k - 1)>> \o split(SubSeq(text, k + 1, Len(text)))

\* re.match(r'\d{4}-(?!0)\d{1,2}', text) is not None: the pattern is looked for at
\* the start of the text and need not reach its end
re_match(text) ==
    /\ Len(text) >= 6
    /\ \A k \in 1..4 : is_digit(text[k])
    /\ text[5] = "-"
    /\ is_digit(text[6])
    /\ text[6] # "0"

\* the text f'{year}-{edition}' of two integers
Label(year, edition) == str(year) \o <<"-">> \o str(edition)

----------------------------------------------------------------------------
(* SQLite file <-> frames *)

public_to_sql(x) == CASE x = "True" -> "1" [] x = "False" -> "0" [] OTHER -> "NULL"
public_from_sql(x) == CASE x = "1" -> "True" [] x = "0" -> "False" [] OTHER -> "None"
bool_to_sql(b) == IF b THEN 1 ELSE 0

\* _df.to_sql('tblArticlesIndexed', if_exists='replace'): one stored row per frame row
indexed_to_sql(df) ==
    [i \in 1..Len(df) |->
        [df[i] EXCEPT !.Public = public_to_sql(df[i].Public),
                      !.Scraped = bool_to_sql(df[i].Scraped),
                      !.Processed = bool_to_sql(df[i].Processed)]]

\* variant: the stored Scraped and Processed values are taken as they are
_load_table_TrustDisk(file) ==
    [i \in 1..Len(file.tblArticlesIndexed) |->
        LET r == file.tblArticlesIndexed[i] IN
        [r EXCEPT !.Public = public_from_sql(r.Public),
                  !.Scraped = (r.Scraped = 1),
                  !.Processed = (r.Processed = 1)]]

\* _load_table('tblArticlesIndexed'): Scraped and Processed are recomputed from the
\* two result tables, Public is decoded
_load_table(file) ==
    [i \in 1..Len(file.tblArticlesIndexed) |->
        LET r == file.tblArticlesIndexed[i] IN
        [r EXCEPT !.Public = public_from_sql(r.Public),
                  !.Scraped = (r.URL \in Range(index_of(file.tblArticlesScraped))),
                  !.Processed = (r.URL \in Range(index_of(file.tblArticlesProcessed)))]]

----------------------------------------------------------------------------
(* Database *)

DataNames == {"df_indexed", "df_scraped", "df_processed"}

Min(a, b) == IF a < b THEN a ELSE b

\* Database.__init__: nothing loaded, the three save timers start now; sigint is
\* the disposition of SIGINT in the process, which the Database methods set
NewDatabase(file) ==
    [df_indexed |-> <<>>, df_scraped_new |-> <<>>, df_processed_new |-> <<>>,
     df_scraped |-> [loaded |-> FALSE, rows |-> <<>>],
     since_save |-> [n \in DataNames |-> 0],
     sigint |-> "default",
     file |-> file]

\* _create_not_existing_tables: the three tables with the columns they are created
\* with (DateIndexed left out); failing: the storage rejects every write
EmptyFile ==
    [tblArticlesIndexed |-> <<>>, tblArticlesScraped |-> <<>>, tblArticlesProcessed |-> <<>>,
     columns |-> [tblArticlesIndexed |-> {"URL", "NewspaperID", "PubDateIndexPage", "Edition",
                                         "Public", "Scraped", "Processed"},
                  tblArticlesScraped |-> {"URL", "DateScraped"},
                  tblArticlesProcessed |-> {"URL", "DateProcessed"}],
     failing |-> FALSE]

\* the clock advances by d seconds
elapse(d, secs) ==
    [d EXCEPT !.since_save =
        [n \in DOMAIN d.since_save |-> Min(d.since_save[n] + secs, save_interval)]]

\* a gate that still skips when exactly the interval has passed
save_skipped_Late(d, data_name, force) ==
    ~force /\ d.since_save[data_name] <= save_interval

\* save_data: "if not force and self._last_save[data_name] + interval > now: return"
save_skipped(d, data_name, force) ==
    ~force /\ d.since_save[data_name] < save_interval

\* the frame save_data writes (_df) and the table it goes to
save_frame(d, data_name) ==
    CASE data_name = "df_indexed" -> d.df_indexed
      [] data_name = "df_scraped" -> d.df_scraped_new
      [] OTHER -> d.df_processed_new

table_name(data_name) ==
    CASE data_name = "df_indexed" -> "tblArticlesIndexed"
      [] data_name = "df_scraped" -> "tblArticlesScraped"
      [] OTHER -> "tblArticlesProcessed"

\* INSERT into a table whose URL column is the PRIMARY KEY fails on a key that is
\* already stored or occurs twice in the inserted rows
append_conflict(table, rows) ==
    \/ ~is_unique(rows)
    \/ \E i \in 1..Len(rows) : rows[i].URL \in Range(index_of(table))

\* what the process gets of a SIGINT under a disposition: SIG_IGN discards the signal
received(sigint) ==
    IF sigint = "SIG_IGN" THEN "sigint_ignored" ELSE "interrupt"

\* delay_interrupt._wrapper: SIGINT is set to SIG_IGN, func runs, the disposition found
\* before is put back; when func raises it is not put back
delay_interrupt(sigint, exception) ==
    IF exception = "none" THEN sigint ELSE "SIG_IGN"

\* _df.columns, with the index label
columns_of(_df) == UNION {DOMAIN _df[k] : k \in 1..Len(_df)}

\* if_exists of the to_sql call for a frame
mode_of(data_name) == IF data_name = "df_indexed" THEN "replace" ELSE "append"

\* _df.to_sql(table_name, self._conn, index_label='URL', if_exists=mode): the
\* exception it raises, "none" when it writes
to_sql_raises(file, table, _df, mode) ==
    IF file.failing THEN "OperationalError"
    ELSE IF mode = "replace" THEN "none"
    ELSE IF ~(columns_of(_df) \subseteq file.columns[table]) THEN "OperationalError"
    ELSE IF append_conflict(file[table], _df) THEN "IntegrityError"
    ELSE "none"

\* the file after a to_sql call that writes
to_sql(file, table, _df, mode) ==
    [file EXCEPT ![table] = IF mode = "replace" THEN _df ELSE @ \o _df]

\* database.py 218-229, the try statement of save_data:
\* <<file afterwards, exception or "none", number of to_sql calls made>>
try_to_sql(file, table, _df, mode) ==
    LET first == to_sql_raises(file, table, _df, mode)
        missing == columns_of(_df) \ file.columns[table]
        altered == [file EXCEPT !.columns[table] = @ \cup missing]
        second == to_sql_raises(altered, table, _df, mode)
    IN  IF first = "none" THEN <<to_sql(file, table, _df, mode), "none", 1>>
        ELSE IF first # "OperationalError" THEN <<file, first, 1>>
        ELSE IF file.failing /\ missing # {} THEN <<file, "OperationalError", 1>>
        ELSE IF second = "none" THEN <<to_sql(altered, table, _df, mode), "none", 2>>
        ELSE <<altered, second, 2>>

\* dt.datetime.now(): a datetime object (the reading of the clock is left out)
datetime_now == <<"datetime", "now">>

\* the sqlite3 adapter of datetime objects, val.isoformat(" "): a str; a str is
\* bound as it is
adapt_datetime_iso(val) ==
    IF val # <<>> /\ Head(val) = "datetime" THEN <<"str">> \o Tail(val) ELSE val

\* the converter of read_sql_query(parse_dates=[...]): a str becomes a datetime
parse_dates(val) ==
    IF val # <<>> /\ Head(val) = "str" THEN <<"datetime">> \o Tail(val) ELSE val

\* _df.to_sql of a result frame into columns of type TEXT: every cell as it is bound
result_to_sql(df) ==
    [i \in 1..Len(df) |-> [column \in DOMAIN df[i] |-> adapt_datetime_iso(df[i][column])]]

\* _load_table('tblArticlesScraped'): SELECT * with parse_dates=['DateScraped']
_load_table_scraped(file) ==
    [i \in 1..Len(file.tblArticlesScraped) |->
        LET r == file.tblArticlesScraped[i] IN
        [column \in DOMAIN r |->
            IF column = "DateScraped" THEN parse_dates(r[column]) ELSE r[column]]]

\* the rows of a frame as to_sql stores them
sql_rows(d, data_name) ==
    IF data_name = "df_indexed" THEN indexed_to_sql(d.df_indexed)
    ELSE result_to_sql(save_frame(d, data_name))

\* save_data without `if _df.empty: return`: to_sql is called with the empty frame too
save_raises_NoEmptyCheck(d, data_name, force) ==
    CASE save_skipped(d, data_name, force) -> "none"
      [] data_name = "df_indexed" /\ ~is_unique(d.df_indexed) -> "AssertionError"
      [] OTHER -> try_to_sql(d.file, table_name(data_name), sql_rows(d, data_name),
                             mode_of(data_name))[2]

\* the exception save_data(data_name, mode, force) ends with, "none" when it returns
save_raises(d, data_name, force) ==
    CASE save_skipped(d, data_name, force) -> "none"
      [] data_name = "df_indexed" /\ ~is_unique(d.df_indexed) -> "AssertionError"
      [] save_frame(d, data_name) = <<>> -> "none"
      [] OTHER -> try_to_sql(d.file, table_name(data_name), sql_rows(d, data_name),
                             mode_of(data_name))[2]

\* variant: the timer is reset and the buffer emptied, but nothing is written
save_data_TimerOnly(d, data_name, force) ==
    IF save_skipped(d, data_name, force) THEN d
    ELSE [d EXCEPT !.since_save[data_name] = 0,
                   !.df_scraped_new = IF data_name = "df_scraped" THEN <<>> ELSE @,
                   !.df_processed_new = IF data_name = "df_processed" THEN <<>> ELSE @]

\* the store after save_data(data_name, mode, force), whether it returned or raised;
\* df_indexed goes with mode 'replace', the two result buffers with mode 'append'
save_data(d, data_name, force) ==
    IF save_skipped(d, data_name, force) THEN d
    ELSE
        LET d1 == [d EXCEPT !.since_save[data_name] = 0,
                            !.sigint = delay_interrupt(@, save_raises(d, data_name, force))]
            _df == save_frame(d, data_name)
            written == try_to_sql(d.file, table_name(data_name), sql_rows(d, data_name),
                                  mode_of(data_name))[1]
        IN  CASE data_name = "df_indexed" ->
                    IF ~is_unique(_df) \/ _df = <<>> THEN d1
                    ELSE [d1 EXCEPT !.file = written]
              [] data_name = "df_scraped" ->
                    LET d2 == [d1 EXCEPT !.df_scraped_new = <<>>] IN
                    IF _df = <<>> THEN d2 ELSE [d2 EXCEPT !.file = written]
              [] OTHER ->
                    LET d2 == [d1 EXCEPT !.df_processed_new = <<>>] IN
                    IF _df = <<>> THEN d2 ELSE [d2 EXCEPT !.file = written]

\* database.py 181-209, save_data(data_name, mode, force) with any data_name and
\* mode: <<store afterwards, exception or "none">>.  _last_save[data_name] is read
\* by the gate unless force is set, and assigned before data_name is looked at; a
\* recognized data_name goes on as save_data above, with its usual mode
save_data_any(d, data_name, mode, force) ==
    IF mode \notin {"append", "replace"}
    THEN <<[d EXCEPT !.sigint = delay_interrupt(@, "ValueError")], "ValueError">>
    ELSE IF ~force /\ data_name \notin DOMAIN d.since_save
    THEN <<[d EXCEPT !.sigint = delay_interrupt(@, "KeyError")], "KeyError">>
    ELSE IF save_skipped(d, data_name, force) THEN <<d, "none">>
    ELSE IF data_name \notin DataNames
    THEN <<[d EXCEPT !.since_save =
                        [n \in DOMAIN @ \cup {data_name} |->
                            IF n = data_name THEN 0 ELSE @[n]],
                     !.sigint = delay_interrupt(@, "ValueError")],
           "ValueError">>
    ELSE <<save_data(d, data_name, force), save_raises(d, data_name, force)>>

\* a sequence of save_data calls, stopping at the first that raises:
\* <<store afterwards, exception or "none">>
RECURSIVE save_all(_, _, _)
save_all(d, names, force) ==
    IF names = <<>> THEN <<d, "none">>
    ELSE LET e == save_raises(d, Head(names), force)
             d1 == save_data(d, Head(names), force)
         IN  IF e # "none" THEN <<d1, e>> ELSE save_all(d1, Tail(names), force)

\* Database.connect: load tblArticlesIndexed, empty result buffers
connect(file) ==
    [NewDatabase(file) EXCEPT !.df_indexed = _load_table(file)]

\* Database.close: force-save the three frames, then release the connection
close(d) == save_all(d, <<"df_indexed", "df_scraped", "df_processed">>, TRUE)

\* property Database.df_scraped: tblArticlesScraped, read once and kept
df_scraped(d) == IF d.df_scraped.loaded THEN d.df_scraped.rows ELSE _load_table_scraped(d.file)

----------------------------------------------------------------------------
(* Site adapter (environment) *)

\* an archive page: the articles it lists, each with its URL as printed, the
\* local hour of day of its publication time and that time's UTC offset in hours
Entry(url, hour, utcoffset) == [url |-> url, hour |-> hour, utcoffset |-> utcoffset]

\* an article the page lists with a publication time that has no timezone
NaiveEntry(url, hour) == [url |-> url, hour |-> hour]

Listings ==
    { <<>>,
      <<Entry(A, 12, 0)>>,
      <<Entry(AQ, 12, 0), Entry(A, 12, 0)>>,
      <<Entry(B, 0, 1)>>,
      <<Entry(B, 12, 0)>>,
      <<NaiveEntry(B, 0)>>,
      <<Entry(A, 12, 0), NaiveEntry(B, 0)>> }

\* every publication time of the listing has a timezone
Aware(listing) == \A k \in 1..Len(listing) : "utcoffset" \in DOMAIN listing[k]

\* _get_articles_by_date(day): (urls, pub_dates), a date timezone-aware or naive
_get_articles_by_date(day) ==
    [k \in 1..Len(site[day]) |->
        [url |-> site[day][k].url,
         pub_date |-> IF "utcoffset" \in DOMAIN site[day][k]
                      THEN [local |-> day * 24 + site[day][k].hour,
                            utcoffset |-> site[day][k].utcoffset]
                      ELSE [local |-> day * 24 + site[day][k].hour]]]

\* _get_articles_by_edition(year, edition): urls
_get_articles_by_edition(year, edition) ==
    [k \in 1..Len(site[edition]) |-> site[edition][k].url]

\* the page _soup_get_html and _selenium_get_html fetch for a URL
page_source(url) == <<"html">> \o url

----------------------------------------------------------------------------
(* NewspaperManager: pure parts of the drivers *)

NoArgs == [from |-> <<>>, to |-> <<>>, skip |-> FALSE]

IndexOps == {"index_articles_by_date_range", "index_articles_by_edition"}
RetriedOps == IndexOps \cup {"scrape_public_articles", "scrape_premium_articles"}

\* df[df.NewspaperID == self.newspaper_id]
of_newspaper(df, me) == SelectSeq(df, LAMBDA r : r.NewspaperID = me)

\* the days of date_from..date_to, whatever skip_existing is
date_range_All(df_indexed, me, args) ==
    [k \in 1..(IF args.to[1] >= args.from[1] THEN args.to[1] - args.from[1] + 1 ELSE 0)
        |-> <<args.from[1] + k - 1>>]

\* the days still to index, with the rows of every publisher taken as indexed
date_range_AnyPublisher(df_indexed, me, args) ==
    LET indexed_dates == {date_of(df_indexed[k].PubDateIndexPage) : k \in 1..Len(df_indexed)}
        all_days == date_range_All(df_indexed, me, args)
    IN  IF args.skip
        THEN SelectSeq(all_days, LAMBDA day : day[1] \notin indexed_dates)
        ELSE all_days

\* scraper.py 141-152: the days of date_from..date_to still to index
date_range(df_indexed, me, args) ==
    LET already_indexed == of_newspaper(df_indexed, me)
        indexed_dates == {date_of(already_indexed[k].PubDateIndexPage) :
                              k \in 1..Len(already_indexed)}
        date_from == args.from[1]
        date_to == args.to[1]
        all_days == [k \in 1..(IF date_to >= date_from THEN date_to - date_from + 1 ELSE 0)
                        |-> <<date_from + k - 1>>]
    IN  IF args.skip
        THEN SelectSeq(all_days, LAMBDA day : day[1] \notin indexed_dates)
        ELSE all_days

\* the editions of one year, a year between the first and the last starting at
\* edition_from like the first
editions_of_FromFirst(year, year_from, edition_from, year_to, edition_to) ==
    IF year = year_from /\ year = year_to THEN
        [k \in 1..(IF edition_to >= edition_from THEN edition_to - edition_from + 1 ELSE 0)
            |-> <<year, edition_from + k - 1>>]
    ELSE IF year = year_to THEN [k \in 1..edition_to |-> <<year, k>>]
    ELSE [k \in 1..(IF editions_per_year >= edition_from
                    THEN editions_per_year - edition_from + 1 ELSE 0)
            |-> <<year, edition_from + k - 1>>]

\* scraper.py 226-234: the editions of one year of the range
editions_of(year, year_from, edition_from, year_to, edition_to) ==
    IF year = year_from /\ year = year_to THEN
        [k \in 1..(IF edition_to >= edition_from THEN edition_to - edition_from + 1 ELSE 0)
            |-> <<year, edition_from + k - 1>>]
    ELSE IF year = year_from THEN
        [k \in 1..(IF editions_per_year >= edition_from
                    THEN editions_per_year - edition_from + 1 ELSE 0)
            |-> <<year, edition_from + k - 1>>]
    ELSE IF year = year_to THEN [k \in 1..edition_to |-> <<year, k>>]
    ELSE [k \in 1..editions_per_year |-> <<year, k>>]

RECURSIVE editions_from_year(_, _, _, _, _)
editions_from_year(year, year_from, edition_from, year_to, edition_to) ==
    IF year > year_to THEN <<>>
    ELSE editions_of(year, year_from, edition_from, year_to, edition_to)
            \o editions_from_year(year + 1, year_from, edition_from, year_to, edition_to)

\* the editions of the range, whatever skip_existing is
edition_range_All(df_indexed, me, args) ==
    editions_from_year(int(split(args.from)[1]), int(split(args.from)[1]),
                       int(split(args.from)[2]),
                       int(split(args.to)[1]), int(split(args.to)[2]))

\* scraper.py 214-223: the exception the checks and conversions of edition_from and
\* edition_to raise, "none" when they pass
edition_raises(args) ==
    IF ~re_match(args.from) \/ ~re_match(args.to) THEN "ValueError"
    ELSE IF \E label \in {args.from, args.to} :
                int_raises(split(label)[1]) \/ int_raises(split(label)[2])
    THEN "ValueError"
    ELSE "none"

\* scraper.py 219-243: the editions of edition_from..edition_to still to index
edition_range(df_indexed, me, args) ==
    LET already_indexed == of_newspaper(df_indexed, me)
        indexed_editions == {already_indexed[k].Edition : k \in 1..Len(already_indexed)}
        year_from == int(split(args.from)[1])
        year_to == int(split(args.to)[1])
        edition_from == int(split(args.from)[2])
        edition_to == int(split(args.to)[2])
        all_editions == editions_from_year(year_from, year_from, edition_from,
                                           year_to, edition_to)
    IN  IF args.skip
        THEN SelectSeq(all_editions, LAMBDA edition : edition \notin indexed_editions)
        ELSE all_editions

\* scraper.py 166-171: the exception the two assert statements on the listing of a
\* day raise, "none" when they pass
day_raises(day) ==
    LET listing == _get_articles_by_date(day[1]) IN
    IF \A k \in 1..Len(listing) : tzinfo_is_not_None(listing[k].pub_date)
    THEN "none" ELSE "AssertionError"

\* scraper.py 173-187: the frame built from a day's listing
day_rows(me, day) ==
    LET listing == _get_articles_by_date(day[1]) IN
    [k \in 1..Len(listing) |->
        [URL |-> strip_query(listing[k].url), NewspaperID |-> me,
         PubDateIndexPage |-> to_utc(listing[k].pub_date), Edition |-> NoEdition,
         Public |-> "None", Scraped |-> FALSE, Processed |-> FALSE]]

\* scraper.py 261-270: the frame built from an edition's listing
edition_rows(me, edition) ==
    LET urls == _get_articles_by_edition(edition[1], edition[2]) IN
    [k \in 1..Len(urls) |->
        [URL |-> strip_query(urls[k]), NewspaperID |-> me,
         PubDateIndexPage |-> NaT, Edition |-> edition,
         Public |-> "None", Scraped |-> FALSE, Processed |-> FALSE]]

\* variant: a row of the listing is new when the publisher has no row of its URL
concat_new_PerPublisher(df_indexed, urls) ==
    df_indexed \o SelectSeq(urls, LAMBDA r :
        \A k \in 1..Len(df_indexed) :
            df_indexed[k].URL = r.URL => df_indexed[k].NewspaperID # r.NewspaperID)

\* variant: rows of the listing replace the rows already stored for their URLs
concat_new_Overwrite(df_indexed, urls) ==
    SelectSeq(df_indexed, LAMBDA r : r.URL \notin Range(index_of(urls))) \o urls

\* scraper.py 188-192: urls['new'] = ~urls.index.isin(df_indexed.index);
\* df_indexed = pd.concat([df_indexed, urls[urls['new']]])
concat_new(df_indexed, urls) ==
    df_indexed \o SelectSeq(urls, LAMBDA r : r.URL \notin Range(index_of(df_indexed)))

\* variant: every row of the publisher, whatever its Public value
to_scrape_public_All(df_indexed, me) ==
    SelectSeq(df_indexed, LAMBDA r : r.NewspaperID = me)

\* scraper.py 288-289: the rows scrape_public_articles visits
to_scrape_public(df_indexed, me) ==
    SelectSeq(df_indexed, LAMBDA r : r.NewspaperID = me /\ r.Public = "None")

\* the candidates without the test of the Public column
to_scrape_premium_Unscraped(df_indexed, me) ==
    SelectSeq(df_indexed, LAMBDA r : r.NewspaperID = me /\ ~r.Scraped)

\* scraper.py 344-346: the rows scrape_premium_articles visits
to_scrape_premium(df_indexed, me) ==
    SelectSeq(df_indexed, LAMBDA r : r.NewspaperID = me /\ r.Public = "False" /\ ~r.Scraped)

\* scraper.py 389-391: the rows nlp visits, of the Scraped table as first read
to_process(df_indexed, scraped, me) ==
    SelectSeq(scraped, LAMBDA s :
        \E k \in 1..Len(df_indexed) :
            /\ df_indexed[k].URL = s.URL
            /\ df_indexed[k].NewspaperID = me
            /\ ~df_indexed[k].Processed)

\* _parse_article(html, url): one row, indexed by the URL
_parse_article(html, url) == [URL |-> url, Text |-> html]

\* scraper.py 304-313: the row of a parsed article as it is put into df_scraped_new
scraped_row(html, url) ==
    [URL |-> url, Text |-> _parse_article(html, url).Text, DateScrapedHTML |-> datetime_now]

\* _process_article(text, url): one row, indexed by the URL
_process_article(text, url) == [URL |-> url, text |-> text]

----------------------------------------------------------------------------
(* Driver calls: state *)

NoCall ==
    [op |-> "none", args |-> NoArgs, snapshot |-> <<>>, i |-> 0, nsaved |-> 0,
     returned |-> <<>>, null_at_start |-> {}, retried |-> FALSE,
     login |-> "not_invoked"]

\* what is remembered of the driver call that ended last
Ended(how, c, d) ==
    [how |-> how, op |-> c.op, args |-> c.args, snapshot |-> c.snapshot, i |-> c.i,
     nsaved |-> c.nsaved, returned |-> c.returned, retried |-> c.retried,
     login |-> c.login, table |-> d.df_indexed]

NoPrev == Ended("none", NoCall, NewDatabase(EmptyFile))

flagged(df, column) == {df[k].URL : k \in {j \in 1..Len(df) : df[j][column]}}

\* the history variables after a step that leaves the store as d
remember(h, d) ==
    [h EXCEPT !.event = "none",
              !.raised = "none",
              !.exception = "none",
              !.ever_scraped = @ \cup flagged(d.df_indexed, "Scraped"),
              !.ever_processed = @ \cup flagged(d.df_indexed, "Processed"),
              !.ever_indexed = @ \cup Range(index_of(d.df_indexed))]

\* the snapshot a driver computes when it is invoked
snapshot_of(op, args, d, me) ==
    CASE op = "index_articles_by_date_range" -> date_range(d.df_indexed, me, args)
      [] op = "index_articles_by_edition" -> edition_range(d.df_indexed, me, args)
      [] op = "scrape_public_articles" -> index_of(to_scrape_public(d.df_indexed, me))
      [] op = "scrape_premium_articles" -> index_of(to_scrape_premium(d.df_indexed, me))
      [] OTHER -> index_of(to_process(d.df_indexed, d.df_scraped.rows, me))

\* NewspaperManager.__exit__: close(), whatever it raises, and the process is gone;
\* why: "exit" (the block ended), "exception" (e, out of driver op) or "interrupt"
Exits(d, why, op, e) ==
    /\ session' = "none"
    /\ newspaper_id' = "none"
    /\ pc' = "idle"
    /\ call' = NoCall
    /\ db' = NewDatabase(close(d)[1].file)
    /\ history' = [remember(history, d) EXCEPT !.prev = NoPrev, !.event = why,
                                               !.raised = op, !.exception = e]
    /\ UNCHANGED <<settings, site>>

\* the driver returns to its caller
Returns(d, c) ==
    /\ pc' = "idle"
    /\ call' = NoCall
    /\ db' = d
    /\ history' = [remember(history, d) EXCEPT !.prev = Ended("returned", c, d)]
    /\ UNCHANGED <<session, newspaper_id, settings, site>>

\* the driver goes on with its loop
Continues(d, c) ==
    /\ pc' = "running"
    /\ call' = c
    /\ db' = d
    /\ history' = remember(history, d)
    /\ UNCHANGED <<session, newspaper_id, settings, site>>

\* a wrapper that retries a driver call once only
Raises_Once(d, c, e) ==
    IF c.op \in RetriedOps /\ settings.retry_on_exception /\ ~c.retried
    THEN /\ pc' = "retry_wait"
         /\ call' = [c EXCEPT !.retried = TRUE]
         /\ db' = d
         /\ history' = [remember(history, d) EXCEPT !.raised = c.op, !.exception = e]
         /\ UNCHANGED <<session, newspaper_id, settings, site>>
    ELSE Exits(d, "exception", c.op, e)

\* retry_on_exception._wrapper: exception e leaves the driver (nlp is not wrapped)
Raises(d, c, e) ==
    IF c.op \in RetriedOps /\ settings.retry_on_exception
    THEN /\ pc' = "retry_wait"
         /\ call' = [c EXCEPT !.retried = TRUE]
         /\ db' = d
         /\ history' = [remember(history, d) EXCEPT !.raised = c.op, !.exception = e]
         /\ UNCHANGED <<session, newspaper_id, settings, site>>
    ELSE Exits(d, "exception", c.op, e)

\* the manager's browser session after a step: it is gone with the process
driver_after(driver) ==
    selenium_driver' = IF session' = "none" THEN "None" ELSE driver

\* scraper.py 353-354: self._selenium_driver.close() on the driver a former call left;
\* what close() does on a driver that was quit is up to the driver object
driver_close(driver) ==
    IF driver = "quit" THEN {"closed", "raised"} ELSE {"closed"}

\* the login step without the test of what _selenium_login returned
after_login_Unchecked(login, d, c) ==
    LET c1 == [c EXCEPT !.login = login]
    IN  CASE login \in {"successful", "failed"} -> Continues(d, c1) /\ driver_after("open")
          [] OTHER -> Raises(d, c1, "Exception") /\ \E driver \in {"None", "open"} : driver_after(driver)

\* scraper.py 358-361: _selenium_login() through a new driver, and what follows
after_login(login, d, c) ==
    LET c1 == [c EXCEPT !.login = login]
    IN  CASE login = "successful" -> Continues(d, c1) /\ driver_after("open")
          [] login = "failed" -> Returns(d, c1) /\ driver_after("open")
          [] OTHER -> Raises(d, c1, "Exception") /\ \E driver \in {"None", "open"} : driver_after(driver)

\* a driver call is made by the code inside the `with` block
Called ==
    /\ session = "open"
    /\ pc = "idle"
    /\ used.calls < MaxCalls
    /\ used' = [used EXCEPT !.calls = @ + 1]

\* func(*args, **kwargs): the driver's code up to its loop
Invoke(op, args, d, retried) ==
    LET d1 == IF op = "nlp"
              THEN [d EXCEPT !.df_scraped = [loaded |-> TRUE, rows |-> df_scraped(d)]]
              ELSE d
        raised == IF op = "index_articles_by_edition" THEN edition_raises(args) ELSE "none"
        c == [op |-> op, args |-> args,
              snapshot |-> IF raised # "none" THEN <<>>
                           ELSE snapshot_of(op, args, d1, newspaper_id),
              i |-> 0, nsaved |-> 0, returned |-> <<>>,
              null_at_start |-> IF op = "scrape_public_articles"
                                THEN {d.df_indexed[k].URL :
                                        k \in {j \in 1..Len(d.df_indexed) :
                                                  d.df_indexed[j].Public = "None"}}
                                ELSE {},
              retried |-> retried, login |-> "not_invoked"]
    IN  IF raised # "none"
        THEN Raises(d1, c, raised) /\ driver_after(selenium_driver)
        ELSE IF op = "nlp" /\ ~is_unique(d.df_indexed)
        THEN Raises(d1, c, "ValueError") /\ driver_after(selenium_driver)
        ELSE IF c.snapshot = <<>>
        THEN Returns(d1, c) /\ driver_after(selenium_driver)
        ELSE IF op = "scrape_premium_articles"
        THEN \E closing \in driver_close(selenium_driver) :
                IF closing = "raised"
                THEN Raises(d1, c, "Exception") /\ driver_after(selenium_driver)
                ELSE \E login \in {"successful", "failed", "raised"} :
                        after_login(login, d1, c)
        ELSE Continues(d1, c) /\ driver_after(selenium_driver)

\* a loop that ends after its first pass, whatever is left of the snapshot
Next_item_FirstOnly(saved, c) ==
    IF saved[2] # "none"
    THEN /\ Raises(saved[1], [c EXCEPT !.i = @ - 1], saved[2])
         /\ driver_after(selenium_driver)
    ELSE /\ Returns(saved[1], c)
         /\ driver_after(IF c.op = "scrape_premium_articles" THEN "quit"
                         ELSE selenium_driver)

\* the end of one pass of a driver's loop, after its save_data calls: c counts the
\* pass, which is not completed when a save raised; after its loop
\* scrape_premium_articles quits the browser (scraper.py 383)
Next_item(saved, c) ==
    IF saved[2] # "none"
    THEN /\ Raises(saved[1], [c EXCEPT !.i = @ - 1], saved[2])
         /\ driver_after(selenium_driver)
    ELSE IF c.i = Len(c.snapshot)
    THEN /\ Returns(saved[1], c)
         /\ driver_after(IF c.op = "scrape_premium_articles" THEN "quit"
                         ELSE selenium_driver)
    ELSE Continues(saved[1], c) /\ driver_after(selenium_driver)

----------------------------------------------------------------------------
(* Actions *)

\* no database file yet, no process; the adapter's pages and the settings are fixed
Start(sites, retrying) ==
    /\ db = NewDatabase(EmptyFile)
    /\ session = "none"
    /\ newspaper_id = "none"
    /\ pc = "idle"
    /\ call = NoCall
    /\ settings \in [retry_on_exception : retrying]
    /\ site \in sites
    /\ history = [prev |-> NoPrev, event |-> "none", raised |-> "none", exception |-> "none",
                  ever_scraped |-> {},
                  ever_processed |-> {}, ever_indexed |-> {}]
    /\ used = [calls |-> 0, sessions |-> 0]
    /\ selenium_driver = "None"

Init == Start([Units -> Listings], BOOLEAN)

\* `with Publisher(db_file) as manager:` NewspaperManager.__init__ and __enter__
manager_enter(publishers) ==
    /\ session = "none"
    /\ used.sessions < MaxSessions
    /\ used' = [used EXCEPT !.sessions = @ + 1]
    /\ \E me \in publishers : newspaper_id' = me
    /\ session' = "open"
    /\ db' = connect(db.file)
    /\ history' = remember(history, connect(db.file))
    /\ selenium_driver' = "None"
    /\ UNCHANGED <<pc, call, settings, site>>

\* `with Publisher(db_file) as manager:` and SIGINT arrives while connect() runs, under
\* the SIG_IGN that delay_interrupt has set; connect() returns and the handler is back
manager_enter_sigint(publishers) ==
    /\ session = "none"
    /\ used.sessions < MaxSessions
    /\ used' = [used EXCEPT !.sessions = @ + 1]
    /\ \E me \in publishers : newspaper_id' = me
    /\ session' = IF received("SIG_IGN") = "interrupt" THEN "none" ELSE "open"
    /\ db' = IF received("SIG_IGN") = "interrupt" THEN NewDatabase(db.file)
             ELSE connect(db.file)
    /\ history' = [remember(history, connect(db.file)) EXCEPT !.event = "sigint_in_connect"]
    /\ selenium_driver' = "None"
    /\ UNCHANGED <<pc, call, settings, site>>

\* the `with` block ends: NewspaperManager.__exit__
manager_exit ==
    /\ session = "open"
    /\ pc = "idle"
    /\ Exits(db, "exit", "none", "none")
    /\ driver_after(selenium_driver)
    /\ UNCHANGED used

\* SIGINT arrives in a driver call.  With the default disposition it is a
\* KeyboardInterrupt: sys.exit() under the wrapper's try, the exception itself in the
\* wrapper's sleep and in nlp; either way __exit__ runs.  With SIG_IGN it is discarded.
interrupt ==
    /\ session = "open"
    /\ pc # "idle"
    /\ UNCHANGED used
    /\ IF received(db.sigint) = "interrupt"
       THEN Exits(db, "interrupt", "none", "none") /\ driver_after(selenium_driver)
       ELSE /\ history' = [history EXCEPT !.event = received(db.sigint)]
            /\ UNCHANGED <<db, session, newspaper_id, pc, call, settings, site,
                           selenium_driver>>

\* the process is killed: memory is lost, the file stays
kill ==
    /\ session = "open"
    /\ session' = "none"
    /\ newspaper_id' = "none"
    /\ pc' = "idle"
    /\ call' = NoCall
    /\ db' = NewDatabase(db.file)
    /\ history' = [history EXCEPT
            !.prev = IF pc = "running" /\ call.op \in IndexOps /\ ~call.retried
                     THEN [Ended("killed", call, db) EXCEPT !.table = <<>>]
                     ELSE IF /\ pc = "idle" /\ history.prev.how = "returned"
                             /\ history.prev.op \in IndexOps /\ ~history.prev.retried
                     THEN [history.prev EXCEPT !.how = "killed", !.table = <<>>]
                     ELSE NoPrev,
            !.event = "kill",
            !.ever_indexed = {}]
    /\ driver_after(selenium_driver)
    /\ UNCHANGED <<settings, site, used>>

\* the code inside the `with` block calls Database.save_data(data_name, mode, force)
\* itself and handles what it raises; a recognized data_name comes with its usual
\* mode or with a mode that is not recognized
save_data_called(names, modes) ==
    /\ session = "open"
    /\ pc = "idle"
    /\ \E data_name \in names, mode \in modes, force \in BOOLEAN :
          /\ data_name \in DataNames /\ mode \in {"append", "replace"}
                => mode = mode_of(data_name)
          /\ LET saved == save_data_any(db, data_name, mode, force)
             IN  /\ db' = saved[1]
                 /\ history' = [remember(history, saved[1]) EXCEPT
                                    !.event = "save_data", !.exception = saved[2]]
    /\ UNCHANGED <<session, newspaper_id, pc, call, settings, site, used, selenium_driver>>

\* the storage starts to reject writes (the disk is full, the file is locked)
storage_fails ==
    /\ session = "open"
    /\ ~db.file.failing
    /\ db' = [db EXCEPT !.file.failing = TRUE]
    /\ UNCHANGED <<session, newspaper_id, pc, call, settings, site, history, used,
                   selenium_driver>>

\* the storage takes writes again
storage_recovers ==
    /\ session = "open"
    /\ db.file.failing
    /\ db' = [db EXCEPT !.file.failing = FALSE]
    /\ UNCHANGED <<session, newspaper_id, pc, call, settings, site, history, used,
                   selenium_driver>>

\* time passes between two steps of the process
time_passes(secs) ==
    /\ session = "open"
    /\ \E n \in DataNames : db.since_save[n] < save_interval
    /\ db' = elapse(db, secs)
    /\ UNCHANGED <<session, newspaper_id, pc, call, settings, site, history, used,
                   selenium_driver>>

\* the adapter (or the parser, or spaCy) raises on the item the loop is at
adapter_raises ==
    /\ session = "open"
    /\ pc = "running"
    /\ Raises(db, call, "Exception")
    /\ driver_after(selenium_driver)
    /\ UNCHANGED used

\* retry_on_exception._wrapper: time.sleep(100), then func(*args, **kwargs) again
retry ==
    /\ session = "open"
    /\ pc = "retry_wait"
    /\ Invoke(call.op, call.args, elapse(db, retry_sleep), TRUE)
    /\ UNCHANGED used

index_articles_by_date_range(requests) ==
    /\ Called
    /\ \E request \in requests, skip_existing \in BOOLEAN :
            Invoke("index_articles_by_date_range",
                   [from |-> <<request[1]>>, to |-> <<request[2]>>, skip |-> skip_existing],
                   db, FALSE)

index_articles_by_edition(requests) ==
    /\ Called
    /\ \E request \in requests, skip_existing \in BOOLEAN :
            Invoke("index_articles_by_edition",
                   [from |-> request[1], to |-> request[2], skip |-> skip_existing],
                   db, FALSE)

scrape_public_articles ==
    /\ Called
    /\ Invoke("scrape_public_articles", NoArgs, db, FALSE)

scrape_premium_articles ==
    /\ Called
    /\ Invoke("scrape_premium_articles", NoArgs, db, FALSE)

nlp ==
    /\ Called
    /\ Invoke("nlp", NoArgs, db, FALSE)

\* scraper.py 163-196 and 254-279: one pass of the index loops
index_unit(urls) ==
    LET d1 == [db EXCEPT !.df_indexed = concat_new(@, urls)]
        saved == save_all(d1, <<"df_indexed">>, FALSE)
        written == /\ ~save_skipped(d1, "df_indexed", FALSE)
                   /\ saved[2] = "none"
                   /\ d1.df_indexed # <<>>
    IN  Next_item(saved, [call EXCEPT !.i = @ + 1,
                                      !.nsaved = IF written THEN call.i + 1 ELSE @])

index_day ==
    /\ UNCHANGED used
    /\ session = "open"
    /\ pc = "running"
    /\ call.op = "index_articles_by_date_range"
    /\ IF day_raises(call.snapshot[call.i + 1]) # "none"
       THEN /\ Raises(db, call, day_raises(call.snapshot[call.i + 1]))
            /\ driver_after(selenium_driver)
       ELSE index_unit(day_rows(newspaper_id, call.snapshot[call.i + 1]))

index_edition ==
    /\ UNCHANGED used
    /\ session = "open"
    /\ pc = "running"
    /\ call.op = "index_articles_by_edition"
    /\ index_unit(edition_rows(newspaper_id, call.snapshot[call.i + 1]))

\* scraper.py 299-332: one pass of the loop of scrape_public_articles
scrape_public_article ==
    /\ UNCHANGED used
    /\ session = "open"
    /\ pc = "running"
    /\ call.op = "scrape_public_articles"
    /\ \E public \in BOOLEAN :
        LET url == call.snapshot[call.i + 1]
            d1 == IF public
                  THEN [db EXCEPT
                          !.df_scraped_new = @ \o <<scraped_row(page_source(url), url)>>,
                          !.df_indexed = at_set(@, url, "Scraped", TRUE)]
                  ELSE db
            d2 == [d1 EXCEPT !.df_indexed =
                      at_set(@, url, "Public", IF public THEN "True" ELSE "False")]
        IN  Next_item(save_all(d2, <<"df_indexed", "df_scraped">>, FALSE),
                      [call EXCEPT !.i = @ + 1, !.returned = Append(@, public)])

\* scraper.py 367-381: one pass of the loop of scrape_premium_articles
scrape_premium_article ==
    /\ UNCHANGED used
    /\ session = "open"
    /\ pc = "running"
    /\ call.op = "scrape_premium_articles"
    /\ LET url == call.snapshot[call.i + 1]
           d1 == [db EXCEPT
                    !.df_scraped_new = @ \o <<scraped_row(page_source(url), url)>>,
                    !.df_indexed = at_set(@, url, "Scraped", TRUE)]
       IN  Next_item(save_all(d1, <<"df_indexed", "df_scraped">>, FALSE),
                     [call EXCEPT !.i = @ + 1])

\* scraper.py 402-415: one pass of the loop of nlp
nlp_article ==
    /\ UNCHANGED used
    /\ session = "open"
    /\ pc = "running"
    /\ call.op = "nlp"
    /\ LET url == call.snapshot[call.i + 1]
           row == CHOOSE r \in Range(db.df_scraped.rows) : r.URL = url
           d1 == [db EXCEPT
                    !.df_processed_new = @ \o <<_process_article(row.Text, url)>>,
                    !.df_indexed = at_set(@, url, "Processed", TRUE)]
       IN  Next_item(save_all(d1, <<"df_indexed", "df_processed">>, FALSE),
                     [call EXCEPT !.i = @ + 1])

\* the ranges an index call is made with: the whole range, or its last unit
Requests == {<<1, LastUnit>>, <<LastUnit, LastUnit>>}

\* the same ranges as edition_from and edition_to, in the years of the model
EditionRequests ==
    {<<Label(year_from, request[1]), Label(year_to, request[2])>> :
        year_from \in Years, year_to \in Years, request \in Requests}

\* the names and modes save_data is called with: the three frames and the two modes,
\* and one of each that is not recognized
SaveNames == DataNames \cup {"df_other"}
SaveModes == {"append", "replace", "update"}

Next ==
    \/ manager_enter(Publishers)
    \/ manager_enter_sigint(Publishers)
    \/ manager_exit
    \/ interrupt
    \/ kill
    \/ storage_fails
    \/ storage_recovers
    \/ save_data_called(SaveNames, SaveModes)
    \/ time_passes(half_interval)
    \/ adapter_raises
    \/ retry
    \/ index_articles_by_date_range(Requests)
    \/ index_articles_by_edition(EditionRequests)
    \/ scrape_public_articles
    \/ scrape_premium_articles
    \/ nlp
    \/ index_day
    \/ index_edition
    \/ scrape_public_article
    \/ scrape_premium_article
    \/ nlp_article

Spec == Init /\ [][Next]_vars

\* index by date only, at most MaxIndexCalls calls, one publisher, retries enabled
\* pages for the index driver: days 1 and 2 list nothing, one article once or twice,
\* or one article published just after local midnight; each later day lists nothing
\* or that article
IndexSites ==
    {s \in [Units -> Listings] :
        /\ \A u \in {1, 2} \cap Units :
              s[u] \in {<<>>, <<Entry(A, 12, 0)>>, <<Entry(AQ, 12, 0), Entry(A, 12, 0)>>,
                        <<Entry(B, 0, 1)>>}
        /\ \A u \in Units \ {1, 2} : s[u] \in {<<>>, <<Entry(B, 0, 1)>>}}

InitIndex == Start(IndexSites, {TRUE})

NextIndex ==
    \/ manager_enter({"x"})
    \/ manager_exit
    \/ kill
    \/ time_passes(save_interval)
    \/ adapter_raises
    \/ retry
    \/ (used.calls < MaxIndexCalls /\ index_articles_by_date_range(Requests))
    \/ index_day

SpecIndex == InitIndex /\ [][NextIndex]_vars

\* pages for the scrape drivers: day 1 lists one article, once or twice; day 2 lists
\* nothing or one article published just after local midnight; later days list nothing
ScrapeSites ==
    {s \in [Units -> Listings] :
        /\ s[1] \in {<<Entry(A, 12, 0)>>, <<Entry(AQ, 12, 0), Entry(A, 12, 0)>>}
        /\ s[2] \in {<<>>, <<Entry(B, 0, 1)>>}
        /\ \A u \in Units \ {1, 2} : s[u] = <<>>}

\* index by date, then the scrape and nlp drivers, one publisher, retries enabled
InitScrape == Start(ScrapeSites, {TRUE})

NextScrape ==
    \/ manager_enter({"x"})
    \/ manager_exit
    \/ kill
    \/ time_passes(half_interval)
    \/ adapter_raises
    \/ retry
    \/ index_articles_by_date_range({<<1, LastUnit>>})
    \/ index_day
    \/ scrape_public_articles
    \/ scrape_premium_articles
    \/ nlp
    \/ scrape_public_article
    \/ scrape_premium_article
    \/ nlp_article

SpecScrape == InitScrape /\ [][NextScrape]_vars

\* every wrapped driver, with retries enabled or disabled, interrupts, no kill, one
\* session less than MaxSessions
InitRetry == Start(ScrapeSites, BOOLEAN)

NextRetry ==
    \/ (used.sessions + 1 < MaxSessions /\ manager_enter({"x"}))
    \/ (used.sessions + 1 < MaxSessions /\ manager_enter_sigint({"x"}))
    \/ manager_exit
    \/ interrupt
    \/ time_passes(save_interval)
    \/ adapter_raises
    \/ retry
    \/ index_articles_by_date_range({<<1, LastUnit>>})
    \/ index_articles_by_edition({<<Label(2020, 1), Label(2020, LastUnit)>>})
    \/ scrape_public_articles
    \/ scrape_premium_articles
    \/ index_day
    \/ index_edition
    \/ scrape_public_article
    \/ scrape_premium_article

SpecRetry == InitRetry /\ [][NextRetry]_vars

\* index by date, scrape_public_articles and nlp on a storage that may reject writes,
\* one publisher, retries enabled
InitStorage == Start(ScrapeSites, {TRUE})

NextStorage ==
    \/ manager_enter({"x"})
    \/ manager_exit
    \/ storage_fails
    \/ storage_recovers
    \/ time_passes(save_interval)
    \/ retry
    \/ index_articles_by_date_range({<<1, LastUnit>>})
    \/ index_day
    \/ scrape_public_articles
    \/ nlp
    \/ scrape_public_article
    \/ nlp_article

SpecStorage == InitStorage /\ [][NextStorage]_vars

\* pages for the index drivers: unit 1 lists one article, unit 2 lists nothing or one
\* article, published just after local midnight or at noon, later units list nothing
UnitSites ==
    {s \in [Units -> Listings] :
        /\ s[1] = <<Entry(A, 12, 0)>>
        /\ s[2] \in {<<>>, <<Entry(B, 0, 1)>>, <<Entry(B, 12, 0)>>}
        /\ \A u \in Units \ {1, 2} : s[u] = <<>>}

\* date ranges: the whole range, its last day, and a range that ends before it starts
DateRequests == Requests \cup {<<LastUnit, 1>>}

\* edition ranges: one year, three years, ranges that end before they start, and
\* arguments that are not a year, a hyphen and an edition number
WellFormedRequests ==
    { <<Label(2020, 1), Label(2020, LastUnit)>>,
      <<Label(2020, LastUnit), Label(2022, 1)>>,
      <<Label(2021, 1), Label(2020, LastUnit)>>,
      <<Label(2020, LastUnit), Label(2020, 1)>> }

MalformedRequests ==
    { <<str(2020) \o <<"/">> \o str(1), Label(2020, LastUnit)>>,
      <<Label(2020, 1), Label(2020, LastUnit) \o <<"/">> \o str(1)>>,
      <<Label(2020, 1) \o <<"-">> \o str(1), Label(2020, LastUnit)>> }

\* both index drivers, two publishers, retries enabled or disabled; the steps of a
\* session follow each other within the save interval, only the wrapper's sleep lasts
InitUnits == Start(UnitSites, BOOLEAN)

NextUnits ==
    \/ manager_enter(Publishers)
    \/ manager_exit
    \/ retry
    \/ index_articles_by_date_range(DateRequests)
    \/ index_articles_by_edition(WellFormedRequests \cup MalformedRequests)
    \/ index_day
    \/ index_edition

SpecUnits == InitUnits /\ [][NextUnits]_vars

\* pages with publication times that have no timezone: day 1 lists one article, alone
\* or followed by such an article; day 2 lists nothing, or one article with or
\* without a timezone; later days list nothing
NaiveSites ==
    {s \in [Units -> Listings] :
        /\ s[1] \in {<<Entry(A, 12, 0)>>, <<Entry(A, 12, 0), NaiveEntry(B, 0)>>}
        /\ s[2] \in {<<>>, <<Entry(B, 0, 1)>>, <<NaiveEntry(B, 0)>>}
        /\ \A u \in Units \ {1, 2} : s[u] = <<>>}

\* index by date on such pages, one publisher, retries enabled or disabled
InitNaive == Start(NaiveSites, BOOLEAN)

NextNaive ==
    \/ manager_enter({"x"})
    \/ manager_exit
    \/ time_passes(save_interval)
    \/ retry
    \/ (used.calls < MaxIndexCalls /\ index_articles_by_date_range(Requests))
    \/ index_day

SpecNaive == InitNaive /\ [][NextNaive]_vars

\* both index drivers with ranges that may leave nothing to index, one publisher,
\* no failures
InitEmpty == Start(UnitSites, {TRUE})

NextEmpty ==
    \/ manager_enter({"x"})
    \/ manager_exit
    \/ time_passes(save_interval)
    \/ (used.calls < MaxIndexCalls /\ index_articles_by_date_range(DateRequests))
    \/ (used.calls < MaxIndexCalls /\ index_articles_by_edition(WellFormedRequests))
    \/ index_day
    \/ index_edition

SpecEmpty == InitEmpty /\ [][NextEmpty]_vars

\* index by date and direct calls of Database.save_data, one publisher
InitSave == Start(UnitSites, {TRUE})

NextSave ==
    \/ manager_enter({"x"})
    \/ manager_exit
    \/ time_passes(half_interval)
    \/ save_data_called(SaveNames, SaveModes)
    \/ index_articles_by_date_range({<<1, LastUnit>>})
    \/ index_day

SpecSave == InitSave /\ [][NextSave]_vars

\* saves of the result buffers called by the code in the `with` block, between index
\* and scrape calls, on a storage that may reject writes; no retries
AppendSites == {s \in ScrapeSites : s[1] = <<Entry(A, 12, 0)>> /\ s[2] = <<>>}

AppendNames == {"df_scraped", "df_processed"}

InitAppend == Start(AppendSites, {FALSE})

NextAppend ==
    \/ manager_enter({"x"})
    \/ manager_exit
    \/ storage_fails
    \/ storage_recovers
    \/ time_passes(save_interval)
    \/ save_data_called(AppendNames, {"append"})
    \/ index_articles_by_date_range({<<1, LastUnit>>})
    \/ index_day
    \/ scrape_public_articles
    \/ scrape_public_article

SpecAppend == InitAppend /\ [][NextAppend]_vars

----------------------------------------------------------------------------
(* Claims *)

URLs(df) == Range(index_of(df))

\* the units a call has handed to the adapter and finished
Handed(c) == {c.snapshot[j] : j \in 1..c.i}

\* the URLs the index loop stores for a unit
UnitURLs(op, unit) ==
    IF op = "index_articles_by_date_range"
    THEN {strip_query(e.url) : e \in Range(_get_articles_by_date(unit[1]))}
    ELSE {strip_query(u) : u \in Range(_get_articles_by_edition(unit[1], unit[2]))}

\* the rows of the first n units of a call's snapshot are in the file
UnitsOnDisk(c, n) ==
    \A j \in 1..n : UnitURLs(c.op, c.snapshot[j]) \subseteq URLs(db.file.tblArticlesIndexed)

\* an index call with skip_existing=True runs right after the same call returned
SecondRun ==
    /\ session = "open"
    /\ pc = "running"
    /\ call.op \in IndexOps
    /\ call.args.skip
    /\ ~call.retried
    /\ history.prev.how = "returned"
    /\ history.prev.op = call.op
    /\ history.prev.args = call.args
    /\ ~history.prev.retried

\* C1: running index twice with skip_existing=True over the same range leaves the
\* Indexed table as the first run left it, and the second run hands the adapter no
\* unit that the first run processed.
C1_IdempotentIndexing ==
    [][SecondRun =>
        /\ Range(call.snapshot) \cap Handed(history.prev) = {}
        /\ (session' = "open" => db'.df_indexed = history.prev.table)]_vars

\* C2: the process was killed after the Indexed table was saved for unit k of the n
\* pending units; the same index call with skip_existing=True, made after the
\* restart, hands exactly the units k+1..n to the adapter.
C2_ResumeAfterCrash ==
    [][(/\ session = "open"
        /\ pc = "idle"
        /\ history.prev.how = "killed"
        /\ history.prev.nsaved >= 1
        /\ history.prev.args.skip
        /\ (pc' = "running" \/ history'.prev.how = "returned"))
       => LET started == IF pc' = "running" THEN call' ELSE history'.prev
              killed == history.prev
          IN  (started.op = killed.op /\ started.args = killed.args)
                  => started.snapshot =
                        SubSeq(killed.snapshot, killed.nsaved + 1, Len(killed.snapshot))]_vars

\* C3 as stated: while an index call is at unit k, the rows of every unit before k
\* are in the on-disk Indexed table.
C3_SavedAfterEveryUnit ==
    (session = "open" /\ pc = "running" /\ call.op \in IndexOps)
        => UnitsOnDisk(call, call.i)

\* C3 as amended: the rows of every unit up to the last unit after which the save
\* was not skipped (the save interval had passed) are in the on-disk Indexed table,
\* while the call runs and after the process is killed.
C3_SavedUpToLastWrittenSave ==
    /\ (session = "open" /\ pc = "running" /\ call.op \in IndexOps)
            => UnitsOnDisk(call, call.nsaved)
    /\ history.prev.how = "killed" => UnitsOnDisk(history.prev, history.prev.nsaved)

\* an index call is past a unit whose rows were written, and a killed call had one
C3_Witness ==
    /\ session = "open"
    /\ pc = "running"
    /\ call.op \in IndexOps
    /\ call.nsaved >= 1
    /\ UnitURLs(call.op, call.snapshot[call.nsaved]) # {}

\* C6: the in-memory Indexed table holds at most one row per URL.
C6_UrlUnique == is_unique(db.df_indexed)

\* C9: the URLs of the in-memory Indexed table never shrink over driver calls, close
\* and reconnect, and the URLs of the on-disk Indexed table never shrink.
C9_NeverDeleted ==
    [][/\ session' = "open" => history'.ever_indexed \subseteq URLs(db'.df_indexed)
       /\ URLs(db.file.tblArticlesIndexed) \subseteq URLs(db'.file.tblArticlesIndexed)]_vars

\* C4 as stated: a Scraped or Processed flag that was once true is true in every
\* later state with an open session, also after the process was killed and the
\* database connected again.
C4_MonotonicFlags ==
    session = "open" =>
        /\ history.ever_scraped \subseteq flagged(db.df_indexed, "Scraped")
        /\ history.ever_processed \subseteq flagged(db.df_indexed, "Processed")

\* C4 as amended: within one process no step of a driver call, a retry or the clock
\* takes the Scraped or the Processed flag of a URL from true to false.
C4_MonotonicInSession ==
    [][(session = "open" /\ session' = "open") =>
        /\ flagged(db.df_indexed, "Scraped") \subseteq flagged(db'.df_indexed, "Scraped")
        /\ flagged(db.df_indexed, "Processed") \subseteq flagged(db'.df_indexed, "Processed")]_vars

\* an index call has just listed again a URL whose Scraped flag was true, and the
\* flag is still true
C4_Witness ==
    /\ session = "open"
    /\ pc = "idle"
    /\ history.prev.how = "returned"
    /\ history.prev.op \in IndexOps
    /\ \E j \in 1..history.prev.i :
          UnitURLs(history.prev.op, history.prev.snapshot[j])
              \cap flagged(db.df_indexed, "Scraped") # {}

\* C5: right after connect, the Scraped flag of every loaded row says whether the
\* URL has a row in the on-disk Scraped table, and the Processed flag whether it has
\* one in the on-disk Processed table, whatever the on-disk Indexed table stores.
C5_DerivedFlags ==
    [][(session = "none" /\ session' = "open") =>
        /\ Len(db'.df_indexed) = Len(db.file.tblArticlesIndexed)
        /\ \A k \in 1..Len(db'.df_indexed) :
              LET r == db'.df_indexed[k] IN
              /\ r.URL = db.file.tblArticlesIndexed[k].URL
              /\ r.Scraped <=> r.URL \in URLs(db'.file.tblArticlesScraped)
              /\ r.Processed <=> r.URL \in URLs(db'.file.tblArticlesProcessed)]_vars

\* connect has loaded a row whose stored Scraped value is not what the Scraped table
\* says, and nothing has run since
C5_Witness ==
    /\ session = "open"
    /\ pc = "idle"
    /\ history.prev.how = "none"
    /\ db.df_scraped_new = <<>>
    /\ \E k \in 1..Len(db.file.tblArticlesIndexed) :
          LET r == db.file.tblArticlesIndexed[k] IN
          /\ (r.Scraped = 1) # (r.URL \in URLs(db.file.tblArticlesScraped))
          /\ db.df_indexed[k].Scraped <=> r.URL \in URLs(db.file.tblArticlesScraped)

\* C7: the Scraped buffer and the on-disk Scraped table together hold at most one
\* row per URL, and so do the Processed buffer and the on-disk Processed table.
C7_ExactlyOnce ==
    /\ is_unique(db.file.tblArticlesScraped \o db.df_scraped_new)
    /\ is_unique(db.file.tblArticlesProcessed \o db.df_processed_new)

\* C8: within a session the Public value of a row changes only in a pass of
\* scrape_public_articles, and only for a URL whose Public was null when that call
\* (or its retry) started.  (A URL stored twice is visited twice by that one call,
\* which may write its Public twice; no other call writes it afterwards.)
C8_WriteOncePublic ==
    [][(session = "open" /\ session' = "open") =>
        /\ Len(db'.df_indexed) >= Len(db.df_indexed)
        /\ \A k \in 1..Len(db.df_indexed) :
              db'.df_indexed[k].Public # db.df_indexed[k].Public =>
                  /\ pc = "running"
                  /\ call.op = "scrape_public_articles"
                  /\ db.df_indexed[k].URL \in call.null_at_start]_vars

\* scrape_premium_articles has scraped a row; the row's Public is still false
C8_Witness ==
    /\ session = "open"
    /\ history.prev.how = "returned"
    /\ history.prev.op = "scrape_premium_articles"
    /\ history.prev.i >= 1
    /\ \E k \in 1..Len(db.df_indexed) :
          /\ db.df_indexed[k].URL = history.prev.snapshot[1]
          /\ db.df_indexed[k].Public = "False"
          /\ db.df_indexed[k].Scraped

\* the rows of the Scraped table and the Scraped buffer for a URL
ScrapedRows(url) ==
    SelectSeq(db.file.tblArticlesScraped \o db.df_scraped_new, LAMBDA r : r.URL = url)

\* C10: when scrape_public_articles has returned, every row it visited has Public
\* equal to the is_public value fetched for it; if that was true the row is Scraped
\* and there is exactly one Scraped row, the parsed page; if it was false the row is
\* not Scraped and there is no Scraped row.
C10_PublicPassOutcome ==
    (/\ session = "open"
     /\ pc = "idle"
     /\ history.prev.how = "returned"
     /\ history.prev.op = "scrape_public_articles")
    => \A j \in 1..Len(history.prev.snapshot) :
          LET url == history.prev.snapshot[j]
              is_public == history.prev.returned[j]
          IN  \A k \in 1..Len(db.df_indexed) :
                db.df_indexed[k].URL = url =>
                    /\ db.df_indexed[k].Public = (IF is_public THEN "True" ELSE "False")
                    /\ db.df_indexed[k].Scraped = is_public
                    /\ ScrapedRows(url) = (IF is_public
                                           THEN <<_parse_article(page_source(url), url)>>
                                           ELSE <<>>)

----------------------------------------------------------------------------
(* Claims about the premium pass *)

\* this step is a call of driver op by the code in the `with` block
Started(op) ==
    /\ pc = "idle"
    /\ session = "open"
    /\ session' = "open"
    /\ used'.calls = used.calls + 1
    /\ IF pc' = "idle" THEN history'.prev.op = op ELSE call'.op = op

\* the call record of the call this step made
StartedCall == IF pc' = "idle" THEN history'.prev ELSE call'

\* the Indexed rows of publisher me that are known non-public and not scraped
PremiumCandidates(df, me) ==
    {k \in 1..Len(df) :
        df[k].NewspaperID = me /\ df[k].Public = "False" /\ df[k].Scraped = FALSE}

\* C11: scrape_premium_articles invokes the adapter's login only if, when it is
\* called, some Indexed row of this publisher has Public false and Scraped false;
\* otherwise the call returns at once and changes neither the store nor the
\* manager's browser session.
C11_PremiumPrecondition ==
    [][Started("scrape_premium_articles")
       => LET candidates == PremiumCandidates(db.df_indexed, newspaper_id)
          IN  /\ StartedCall.login # "not_invoked" => candidates # {}
              /\ candidates = {}
                    => /\ pc' = "idle"
                       /\ db' = db
                       /\ selenium_driver' = selenium_driver]_vars

\* a premium call has returned without a login although the table has rows
C11_Witness ==
    /\ pc = "idle"
    /\ history.prev.how = "returned"
    /\ history.prev.op = "scrape_premium_articles"
    /\ history.prev.login = "not_invoked"
    /\ db.df_indexed # <<>>
    /\ PremiumCandidates(db.df_indexed, newspaper_id) = {}

\* C12: when a scrape_premium_articles call whose login succeeded has returned,
\* every row it selected (Public false, Scraped false when it was invoked) is Scraped,
\* has exactly one Scraped row, the parsed page, and still has Public false.
C12_PremiumPassOutcome ==
    (/\ session = "open"
     /\ pc = "idle"
     /\ history.prev.how = "returned"
     /\ history.prev.op = "scrape_premium_articles"
     /\ history.prev.login = "successful")
    => \A j \in 1..Len(history.prev.snapshot) :
          LET url == history.prev.snapshot[j]
          IN  \A k \in 1..Len(db.df_indexed) :
                db.df_indexed[k].URL = url =>
                    /\ db.df_indexed[k].Scraped
                    /\ db.df_indexed[k].Public = "False"
                    /\ ScrapedRows(url) = <<_parse_article(page_source(url), url)>>

\* this step invokes scrape_premium_articles, first or again, and its login returns False
LoginFails ==
    /\ session = "open"
    /\ session' = "open"
    /\ pc = "retry_wait" \/ (pc = "idle" /\ used'.calls = used.calls + 1)
    /\ StartedCall.op = "scrape_premium_articles"
    /\ StartedCall.login = "failed"

\* C13: when the adapter's login returns False, scrape_premium_articles returns
\* without raising, has fetched no article, and leaves the Indexed table and the
\* Scraped buffer as they were, so that its candidates are still candidates.
C13_LoginFailure ==
    [][LoginFails
       => /\ pc' = "idle"
          /\ history'.prev.how = "returned"
          /\ history'.prev.i = 0
          /\ db'.df_indexed = db.df_indexed
          /\ db'.df_scraped_new = db.df_scraped_new
          /\ db'.file = db.file
          /\ PremiumCandidates(db'.df_indexed, newspaper_id) # {}
          /\ snapshot_of("scrape_premium_articles", NoArgs, db', newspaper_id)
                = history'.prev.snapshot]_vars

\* a premium call has returned after a failed login, its candidates still there
C13_Witness ==
    /\ session = "open"
    /\ pc = "idle"
    /\ history.prev.how = "returned"
    /\ history.prev.op = "scrape_premium_articles"
    /\ history.prev.login = "failed"
    /\ history.prev.snapshot # <<>>
    /\ PremiumCandidates(db.df_indexed, newspaper_id) # {}

----------------------------------------------------------------------------
(* Claims about the retry wrapper and the manager scope *)

\* C14: when an invocation of a wrapped driver raises an exception, then with
\* settings.retry_on_exception the wrapper waits and invokes the same driver with the
\* same arguments again, after the first failure and after every later one; without
\* it the exception leaves the call, the `with` block ends and the driver is not
\* invoked again.  The wait ends only with a new invocation or an interrupt, and the
\* new invocation starts retry_sleep seconds later.
C14_WholeCallRetry ==
    [][/\ history'.raised \in RetriedOps
          => IF settings.retry_on_exception
             THEN /\ session' = "open"
                  /\ pc' = "retry_wait"
                  /\ call'.op = history'.raised
                  /\ pc # "idle" => call'.args = call.args
             ELSE /\ session' = "none"
                  /\ pc' = "idle"
                  /\ call' = NoCall
                  /\ history'.event = "exception"
       /\ pc = "retry_wait"
          => /\ settings.retry_on_exception
             /\ \/ pc' = "retry_wait" /\ call' = call
                \/ history'.event = "interrupt"
                \/ /\ session' = "open"
                   /\ StartedCall.op = call.op
                   /\ StartedCall.args = call.args
                   /\ StartedCall.retried
                   /\ db' = elapse(db, retry_sleep)]_vars

\* a wrapped driver call has failed, was invoked again, failed again and waits again
C14_Witness ==
    /\ session = "open"
    /\ pc = "retry_wait"
    /\ settings.retry_on_exception
    /\ call.retried
    /\ call.i >= 1
    /\ history.raised = call.op
    /\ history.prev.how = "returned"

\* this step is the wrapper invoking the driver again after its wait
Reinvoked ==
    /\ session = "open"
    /\ pc = "retry_wait"
    /\ session' = "open"
    /\ ~(pc' = "retry_wait" /\ call' = call)

\* a row of publisher me is stored under the day or the edition of the unit
Covered(df, me, op, unit) ==
    \E k \in 1..Len(df) :
        /\ df[k].NewspaperID = me
        /\ IF op = "index_articles_by_date_range"
           THEN date_of(df[k].PubDateIndexPage) = unit[1]
           ELSE df[k].Edition = unit

\* C15: the invocation the wrapper makes after a failure hands to the adapter no item
\* of the snapshot that the failed invocation had completed, whatever the driver
\* and whatever skip_existing.
C15_RetryResumes ==
    [][Reinvoked => Range(StartedCall.snapshot) \cap Handed(call) = {}]_vars

\* C15, as the code has it: the invocation after a failure has the same arguments and
\* takes a new snapshot of the table in memory.  scrape_public_articles and
\* scrape_premium_articles hand no completed item again; an index call with
\* skip_existing hands a completed unit again exactly when no row is stored under
\* the unit's own day or edition; an index call without skip_existing hands every
\* unit of its range again.
C15_RetryTakesNewSnapshot ==
    [][Reinvoked
       => LET new == StartedCall
          IN  /\ new.op = call.op
              /\ new.args = call.args
              /\ call.op \notin IndexOps
                    => Range(new.snapshot) \cap Handed(call) = {}
              /\ call.op \in IndexOps /\ call.args.skip
                    => \A unit \in Handed(call) :
                          unit \in Range(new.snapshot)
                            <=> ~Covered(db.df_indexed, newspaper_id, call.op, unit)
              /\ call.op \in IndexOps /\ ~call.args.skip
                    => new.snapshot = call.snapshot]_vars

\* the only call made so far was invoked again after a failure and starts anew with
\* rows of its completed units in the table
C15_Witness ==
    /\ session = "open"
    /\ pc = "running"
    /\ used.calls = 1
    /\ call.retried
    /\ call.i = 0
    /\ db.df_indexed # <<>>

\* C16: a SIGINT that arrives while the wrapper waits before a retry ends the driver
\* call at once: the `with` block is left and the driver is not invoked again.
C16_InterruptDuringWait ==
    [][(/\ pc = "retry_wait"
        /\ history.event = "none"
        /\ history'.event \in {"interrupt", "sigint_ignored"})
       => /\ session' = "none"
          /\ pc' = "idle"
          /\ call' = NoCall]_vars

\* C17: a SIGINT that arrives while connect() runs is held and delivered when
\* connect() has returned: the process does not go on to use the manager.
C17_InterruptShielding ==
    history.event = "sigint_in_connect" => session = "none"

\* this step leaves the `with` block: the block ended, an exception left a driver
\* call, or an interrupt arrived in a driver call
ScopeLeft ==
    /\ session = "open"
    /\ session' = "none"
    /\ history'.event \in {"exit", "exception", "interrupt"}

\* C18: whichever way the `with` block is left, close() runs and returns: every row
\* of the Indexed table in memory and every row of the Scraped and Processed
\* buffers is in the tables of the file afterwards.
C18_ScopedSession ==
    [][ScopeLeft
       => /\ close(db)[2] = "none"
          /\ URLs(db.df_indexed) \subseteq URLs(db'.file.tblArticlesIndexed)
          /\ Range(db.df_scraped_new) \subseteq Range(db'.file.tblArticlesScraped)
          /\ Range(db.df_processed_new) \subseteq Range(db'.file.tblArticlesProcessed)]_vars

----------------------------------------------------------------------------
(* Claims about save_data *)

\* C19: save_data(data_name, mode, force) goes on to write only if force is set or
\* at least save_interval seconds have passed since the last save of that same
\* table; each table has its own timer, started when the store is constructed.  A
\* skipped save changes nothing: not the file, not the buffers, not the timers.  A
\* save that is not skipped and does not raise restarts the timer of its table
\* only and leaves its frame in the table of the file.
C19_SaveGating ==
    /\ session = "none" => \A n \in DataNames : db.since_save[n] = 0
    /\ \A n \in DataNames, force \in BOOLEAN :
          LET after == save_data(db, n, force)
              due == db.since_save[n] >= save_interval
              frame == save_frame(db, n)
          IN  /\ ~(force \/ due) => after = db
              /\ after.file # db.file => force \/ due
              /\ (force \/ due)
                    => /\ after.since_save[n] = 0
                       /\ \A m \in DataNames \ {n} : after.since_save[m] = db.since_save[m]
                       /\ save_raises(db, n, force) = "none"
                             => /\ URLs(frame) \subseteq URLs(after.file[table_name(n)])
                                /\ after.df_scraped_new = IF n = "df_scraped" THEN <<>>
                                                          ELSE db.df_scraped_new
                                /\ after.df_processed_new = IF n = "df_processed" THEN <<>>
                                                            ELSE db.df_processed_new

\* a driver call is running, the save of the Indexed table was skipped so that the
\* table in memory is ahead of the file, while the Scraped table, on its own timer,
\* has been written
C19_Witness ==
    /\ session = "open"
    /\ pc = "running"
    /\ db.since_save["df_indexed"] < save_interval
    /\ db.since_save["df_indexed"] # db.since_save["df_scraped"]
    /\ indexed_to_sql(db.df_indexed) # db.file.tblArticlesIndexed
    /\ db.file.tblArticlesScraped # <<>>

\* the append of a result buffer whose rows have columns the table lacks adds every
\* missing column and calls to_sql a second time, and no third time
SchemaFixedOnce ==
    \A n \in {"df_scraped", "df_processed"} :
        LET frame == save_frame(db, n)
            table == table_name(n)
            tried == try_to_sql(db.file, table, frame, "append")
        IN  frame # <<>>
              => /\ tried[3] <= 2
                 /\ (~db.file.failing /\ ~(columns_of(frame) \subseteq db.file.columns[table]))
                       => /\ tried[3] = 2
                          /\ columns_of(frame) \subseteq tried[1].columns[table]

\* this step is a pass of a scrape driver or of nlp in which the save of the Indexed
\* table is skipped and the append of the result buffer raises OperationalError,
\* which leaves save_data only when the second to_sql has failed
SecondAppendFails ==
    /\ pc = "running"
    /\ call.op \in {"scrape_public_articles", "scrape_premium_articles", "nlp"}
    /\ save_skipped(db, "df_indexed", FALSE)
    /\ history'.raised = call.op
    /\ history'.exception = "OperationalError"

\* C20: an append that fails for missing columns adds them and is tried again
\* exactly once; when the second to_sql fails too, no further attempt is made and
\* the storage error leaves the driver call, also with retry_on_exception: the
\* wrapper does not wait and invoke the driver again.
C20_SchemaRetryOnce ==
    [][/\ SchemaFixedOnce
       /\ SecondAppendFails
            => /\ session' = "none"
               /\ history'.event = "exception"]_vars

\* the Scraped row the scrape drivers append for a URL
Appended(url) == scraped_row(page_source(url), url)

\* C21: a Scraped row with fields the table lacks (Text, DateScrapedHTML) is appended;
\* in every later connection each row read back from tblArticlesScraped has the
\* fields of the appended row with the appended values.
C21_OpenSchemaRoundTrip ==
    session = "open"
        => \A r \in Range(_load_table_scraped(db.file)) :
              \A column \in DOMAIN Appended(r.URL) :
                  /\ column \in DOMAIN r
                  /\ r[column] = Appended(r.URL)[column]

\* C22: with retry_on_exception enabled, an exception that leaves a driver call
\* (index by date, index by edition, scrape_public_articles, scrape_premium_articles
\* or nlp) is the storage error of a second failed to_sql; no call of this
\* specification is made with an invalid configuration, and the calls on an Indexed
\* table that lists a URL twice are left aside.
C22_RetryKeepsExceptions ==
    [][(/\ settings.retry_on_exception
        /\ is_unique(db.df_indexed)
        /\ history'.event = "exception")
          => history'.exception = "OperationalError"]_vars

\* C23: index_articles_by_edition called with an edition_from or edition_to that is
\* not a year, a hyphen and an edition number raises ValueError to its caller, with
\* retry_on_exception enabled or disabled, before the adapter is called or anything is
\* written: the store is left to __exit__ as it was before the call.
C23_MalformedEditionFailsFast ==
    [][\A request \in MalformedRequests :
          index_articles_by_edition({request})
            => /\ history'.event = "exception"
               /\ history'.raised = "index_articles_by_edition"
               /\ history'.exception = "ValueError"
               /\ db' = NewDatabase(close(db)[1].file)]_vars

\* save_data is called with a data_name or a mode that is not recognized
Unrecognized(data_name, mode) ==
    data_name \notin DataNames \/ mode \notin {"append", "replace"}

\* C24: save_data called with a mode other than append and replace, or with a
\* data_name other than the three frames, raises an error and leaves the tables of the
\* file, the two buffers and the save timers as they were, with force set or not.
C24_UnrecognizedFailsFast ==
    [][\A data_name \in SaveNames, mode \in SaveModes :
          (Unrecognized(data_name, mode) /\ save_data_called({data_name}, {mode}))
            => /\ history'.exception # "none"
               /\ db'.file = db.file
               /\ db'.df_scraped_new = db.df_scraped_new
               /\ db'.df_processed_new = db.df_processed_new
               /\ db'.since_save = db.since_save]_vars

\* the parser raises on the article a scrape driver is at
ParseFails ==
    /\ pc = "running"
    /\ call.op \in {"scrape_public_articles", "scrape_premium_articles"}
    /\ history'.raised = call.op
    /\ history'.exception = "Exception"
    /\ db' = db \/ session' = "none"

\* C25: a failure of the parser on one article of scrape_public_articles or
\* scrape_premium_articles does not end the batch: the same call goes on with the
\* rest of its snapshot, or returns when the article was its last.
C25_ParseFailureIsLocal ==
    [][ParseFails
          => /\ session' = "open"
             /\ \/ pc' = "running" /\ call'.snapshot = call.snapshot /\ call'.i = call.i + 1
                \/ /\ pc' = "idle"
                   /\ history'.prev.how = "returned"
                   /\ call.i + 1 = Len(call.snapshot)]_vars

\* the index loop is at a day for which the adapter returns a publication time
\* without a timezone
NaiveUnit ==
    /\ session = "open"
    /\ pc = "running"
    /\ call.op = "index_articles_by_date_range"
    /\ ~Aware(site[call.snapshot[call.i + 1][1]])

\* C26: when the adapter returns, for a day, a publication time without timezone,
\* the pass of the index loop on that day raises and adds no row, neither to the
\* Indexed table in memory nor to the table in the file.
C26_TimezoneInvariant ==
    [][(NaiveUnit /\ index_day)
          => /\ history'.raised = "index_articles_by_date_range"
             /\ history'.exception = "AssertionError"
             /\ URLs(db'.df_indexed) \cup URLs(db'.file.tblArticlesIndexed)
                    \subseteq URLs(db.df_indexed) \cup URLs(db.file.tblArticlesIndexed)]_vars

\* a day that lists an article with a timezone and one without has been rejected:
\* the wrapper waits, and the table has no row, not even of the first article
C26_Witness ==
    /\ session = "open"
    /\ pc = "retry_wait"
    /\ call.op = "index_articles_by_date_range"
    /\ history.exception = "AssertionError"
    /\ \E e \in Range(site[call.snapshot[call.i + 1][1]]) : "utcoffset" \in DOMAIN e
    /\ db.df_indexed = <<>>
    /\ db.file.tblArticlesIndexed = <<>>

\* the days of date_from..date_to, less, with skip_existing, the days on which an
\* Indexed row of publisher me has its publication-index timestamp
DaysToIndex(df, me, args) ==
    {day \in args.from[1]..args.to[1] :
        args.skip => ~\E k \in 1..Len(df) :
                        df[k].NewspaperID = me /\ date_of(df[k].PubDateIndexPage) = day}

\* C27: the days index_articles_by_date_range sets out to index are, in calendar
\* order, the days of date_from..date_to; with skip_existing, less the days on which
\* an Indexed row of this publisher has its publication-index timestamp, whatever
\* rows other publishers have.
C27_DateRangeResolution ==
    [][Started("index_articles_by_date_range")
          => LET snapshot == StartedCall.snapshot
             IN  /\ {snapshot[k][1] : k \in 1..Len(snapshot)}
                        = DaysToIndex(db.df_indexed, newspaper_id, StartedCall.args)
                 /\ \A j, k \in 1..Len(snapshot) : j < k => snapshot[j][1] < snapshot[k][1]]_vars

\* a call with skip_existing is running: a day of the range is left out for a row of
\* this publisher, and a day on which only another publisher has a row is kept
C27_Witness ==
    /\ session = "open"
    /\ pc = "running"
    /\ call.op = "index_articles_by_date_range"
    /\ call.args.skip
    /\ \E k \in 1..Len(db.df_indexed) :
          /\ db.df_indexed[k].NewspaperID = newspaper_id
          /\ date_of(db.df_indexed[k].PubDateIndexPage) \in call.args.from[1]..call.args.to[1]
          /\ <<date_of(db.df_indexed[k].PubDateIndexPage)>> \notin Range(call.snapshot)
    /\ \E k \in 1..Len(db.df_indexed) :
          /\ db.df_indexed[k].NewspaperID # newspaper_id
          /\ <<date_of(db.df_indexed[k].PubDateIndexPage)>> \in Range(call.snapshot)

\* the editions the range Y1-E1..Y2-E2 names, with n editions in a year
EditionsNamed(y1, e1, y2, e2, n) ==
    {label \in (y1..y2) \X (1..(IF e2 > n THEN e2 ELSE n)) :
        LET year == label[1]
            edition == label[2]
        IN  IF y1 = y2 THEN e1 <= edition /\ edition <= e2
            ELSE IF year = y1 THEN e1 <= edition /\ edition <= n
            ELSE IF year = y2 THEN edition <= e2
            ELSE edition <= n}

\* label a comes before label b: an earlier year, or the same year and an earlier edition
Before(a, b) == a[1] < b[1] \/ (a[1] = b[1] /\ a[2] < b[2])

\* the step starts index_articles_by_edition with edition_from and edition_to each a
\* year, a hyphen and an edition number
StartedEditions ==
    /\ Started("index_articles_by_edition")
    /\ \E request \in WellFormedRequests :
          StartedCall.args.from = request[1] /\ StartedCall.args.to = request[2]

\* C28: for edition_from Y1-E1 and edition_to Y2-E2 the editions
\* index_articles_by_edition sets out to index are, in ascending order and without
\* repeats, E1..E2 of the year when Y1 = Y2, and otherwise E1..N of Y1, 1..N of each
\* year between and 1..E2 of Y2; with skip_existing, less the editions whose label an
\* Indexed row of this publisher carries.
C28_EditionRangeResolution ==
    [][StartedEditions
          => \E y1, y2 \in 2020..2022, e1, e2 \in 1..LastUnit :
                /\ StartedCall.args.from = Label(y1, e1)
                /\ StartedCall.args.to = Label(y2, e2)
                /\ LET snapshot == StartedCall.snapshot
                       indexed == {r.Edition : r \in {q \in Range(db.df_indexed) :
                                                        q.NewspaperID = newspaper_id}}
                       named == EditionsNamed(y1, e1, y2, e2, editions_per_year)
                   IN  /\ Range(snapshot) = IF StartedCall.args.skip
                                            THEN named \ indexed ELSE named
                       /\ \A j, k \in 1..Len(snapshot) :
                             j < k => Before(snapshot[j], snapshot[k])]_vars

\* a call with skip_existing over three years is running: the edition of the first
\* year that a row of this publisher carries is left out, the editions of the year
\* between and of the last year are kept
C28_Witness ==
    /\ session = "open"
    /\ pc = "running"
    /\ call.op = "index_articles_by_edition"
    /\ call.args.skip
    /\ call.args.from = Label(2020, LastUnit)
    /\ call.args.to = Label(2022, 1)
    /\ call.i = 0
    /\ <<2021, 1>> \in Range(call.snapshot)
    /\ <<2022, 1>> \in Range(call.snapshot)
    /\ \E k \in 1..Len(db.df_indexed) :
          /\ db.df_indexed[k].NewspaperID = newspaper_id
          /\ db.df_indexed[k].Edition = <<2020, LastUnit>>
          /\ db.df_indexed[k].Edition \notin Range(call.snapshot)

\* the step starts an index call whose range, less with skip_existing the units this
\* publisher has rows of, names no unit
StartedWithNothingToDo ==
    \/ /\ Started("index_articles_by_date_range")
       /\ DaysToIndex(db.df_indexed, newspaper_id, StartedCall.args) = {}
    \/ /\ StartedEditions
       /\ \E y1, y2 \in 2020..2022, e1, e2 \in 1..LastUnit :
             /\ StartedCall.args.from = Label(y1, e1)
             /\ StartedCall.args.to = Label(y2, e2)
             /\ \A label \in EditionsNamed(y1, e1, y2, e2, editions_per_year) :
                   /\ StartedCall.args.skip
                   /\ \E r \in Range(db.df_indexed) :
                         r.NewspaperID = newspaper_id /\ r.Edition = label

\* C29: an index call that finds no unit to index returns to its caller without
\* raising: the adapter is not called, and the store (the Indexed table, the file and
\* the save timers) is as before the call.
C29_NothingToDo ==
    [][StartedWithNothingToDo
          => /\ pc' = "idle"
             /\ history'.prev.how = "returned"
             /\ history'.prev.i = 0
             /\ history'.exception = "none"
             /\ db' = db]_vars

\* an index call with skip_existing has returned without a pass over a range that
\* names units, while the save of the Indexed table was due and the table not empty
C29_Witness ==
    /\ session = "open"
    /\ pc = "idle"
    /\ history.prev.how = "returned"
    /\ history.prev.op \in IndexOps
    /\ history.prev.args.skip
    /\ history.prev.snapshot = <<>>
    /\ db.since_save["df_indexed"] = save_interval
    /\ \E r \in Range(db.df_indexed) :
          IF history.prev.op = "index_articles_by_date_range"
          THEN <<date_of(r.PubDateIndexPage)>> = history.prev.args.from
          ELSE /\ r.Edition # NoEdition
               /\ Label(r.Edition[1], r.Edition[2]) = history.prev.args.from

\* C30: a pass of an index loop adds to the Indexed table exactly one row for each
\* URL the adapter returned for the unit that the table did not have, and each row
\* added has the publisher of the manager, Scraped and Processed false and Public
\* null.
C30_NewIndexRows ==
    [][((index_day \/ index_edition) /\ session' = "open")
          => LET unit == call.snapshot[call.i + 1]
                 added == SubSeq(db'.df_indexed, Len(db.df_indexed) + 1, Len(db'.df_indexed))
                 new == UnitURLs(call.op, unit) \ URLs(db.df_indexed)
             IN  /\ Len(db'.df_indexed) >= Len(db.df_indexed)
                 /\ SubSeq(db'.df_indexed, 1, Len(db.df_indexed)) = db.df_indexed
                 /\ URLs(added) = new
                 /\ Len(added) = Cardinality(new)
                 /\ \A r \in Range(added) :
                       /\ r.NewspaperID = newspaper_id
                       /\ r.Scraped = FALSE
                       /\ r.Processed = FALSE
                       /\ r.Public = "None"]_vars

\* C31: when a pass of an index loop finds, for the publisher of the manager, a URL
\* that the Indexed table has under another publisher, no row is added for the URL
\* and the row of the table stays as it is, with its publisher, publication time,
\* edition, Public, Scraped and Processed.
C31_GlobalUrlNamespace ==
    [][((index_day \/ index_edition) /\ session' = "open")
          => LET found == UnitURLs(call.op, call.snapshot[call.i + 1])
             IN  \A k \in 1..Len(db.df_indexed) :
                    (db.df_indexed[k].URL \in found
                        /\ db.df_indexed[k].NewspaperID # newspaper_id)
                      => /\ Len(db'.df_indexed) >= k
                         /\ db'.df_indexed[k] = db.df_indexed[k]
                         /\ \A j \in 1..Len(db'.df_indexed) :
                               db'.df_indexed[j].URL = db.df_indexed[k].URL => j = k]_vars

\* the index loop of one publisher has passed a unit that lists a URL the table has
\* under the other publisher
C31_Witness ==
    /\ session = "open"
    /\ call.op \in IndexOps
    /\ call.i >= 1
    /\ \E r \in Range(db.df_indexed) :
          /\ r.NewspaperID # newspaper_id
          /\ r.URL \in UnitURLs(call.op, call.snapshot[1])

\* one pass of the loop of any driver
Pass ==
    \/ index_day
    \/ index_edition
    \/ scrape_public_article
    \/ scrape_premium_article
    \/ nlp_article

\* the URLs whose rows a step adds to the Indexed table or whose flags it changes
Touched ==
    (URLs(db'.df_indexed) \ URLs(db.df_indexed))
    \cup {db.df_indexed[k].URL :
             k \in {j \in 1..Len(db.df_indexed) :
                       /\ j <= Len(db'.df_indexed)
                       /\ db'.df_indexed[j] # db.df_indexed[j]}}

\* C32: within one driver invocation the passes take the items of the snapshot that
\* was computed when the driver was invoked, in the snapshot's order and one position
\* at a time: a pass that lets the process live works on the item after the ones
\* already handed over and touches rows of that item only, the snapshot stays as it
\* was, and the driver returns only from the pass of the snapshot's last item.
C32_SnapshotOrder ==
    [][(Pass /\ session' = "open")
          => LET item == call.snapshot[call.i + 1]
             IN  /\ call.i < Len(call.snapshot)
                 /\ Touched \subseteq (IF call.op \in IndexOps
                                       THEN UnitURLs(call.op, item) ELSE {item})
                 /\ pc' = "running"
                       => /\ call'.snapshot = call.snapshot
                          /\ call'.i = call.i + 1
                          /\ call'.i < Len(call.snapshot)
                 /\ pc' = "idle"
                       => /\ history'.prev.how = "returned"
                          /\ history'.prev.snapshot = call.snapshot
                          /\ history'.prev.i = Len(call.snapshot)
                          /\ call.i + 1 = Len(call.snapshot)
                 /\ pc' = "retry_wait"
                       => /\ history'.raised = call.op
                          /\ call'.snapshot = call.snapshot]_vars

\* a scrape call has returned after it handed over a snapshot of two articles or more
C32_Witness ==
    /\ session = "open"
    /\ pc = "idle"
    /\ history.prev.how = "returned"
    /\ history.prev.op \in {"scrape_public_articles", "scrape_premium_articles"}
    /\ Len(history.prev.snapshot) >= 2
    /\ history.prev.i = Len(history.prev.snapshot)
    /\ history.prev.snapshot[1] # history.prev.snapshot[2]

\* C33: when a call of nlp has returned, every article of this publisher that is
\* marked Scraped (so every article that was Scraped and not Processed when the call
\* began, whether its Scraped row was on disk, in the Scraped buffer, or appended
\* after the Scraped table was first read) is marked Processed and has exactly one
\* Processed row, on disk or in the Processed buffer.
C33_EnrichmentCoverage ==
    (/\ session = "open"
     /\ pc = "idle"
     /\ history.prev.how = "returned"
     /\ history.prev.op = "nlp")
    => \A k \in 1..Len(db.df_indexed) :
          (db.df_indexed[k].NewspaperID = newspaper_id /\ db.df_indexed[k].Scraped)
            => /\ db.df_indexed[k].Processed
               /\ Len(SelectSeq(db.file.tblArticlesProcessed \o db.df_processed_new,
                                LAMBDA r : r.URL = db.df_indexed[k].URL)) = 1

\* C34: a save_data call for the Scraped or the Processed buffer in append mode, forced
\* or not, that finds the buffer empty writes nothing: the file is as it was, and the
\* call returns without an exception even while the storage rejects writes.
C34_EmptyAppendNoOp ==
    [][\A data_name \in AppendNames, force \in BOOLEAN :
          (/\ session = "open"
           /\ pc = "idle"
           /\ history'.event = "save_data"
           /\ save_frame(db, data_name) = <<>>
           /\ db' = save_data_any(db, data_name, "append", force)[1]
           /\ force \/ db'.since_save[data_name] = 0)
          => /\ db'.file = db.file
             /\ history'.exception = "none"]_vars

\* a save of the Scraped buffer got past the interval gate (its timer alone was set
\* back) and returned while the storage rejected writes and rows were on disk
C34_Witness ==
    /\ session = "open"
    /\ history.event = "save_data"
    /\ history.exception = "none"
    /\ db.file.failing
    /\ db.since_save["df_scraped"] = 0
    /\ db.since_save["df_indexed"] > 0
    /\ db.df_scraped_new = <<>>
    /\ db.file.tblArticlesScraped # <<>>

\* C35: when a scrape_premium_articles call that went as far as the login has
\* returned, after its last candidate or after a login that failed, the browser
\* session it opened is torn down: the manager holds no open browser session.
C35_BrowserTornDown ==
    (/\ session = "open"
     /\ pc = "idle"
     /\ history.prev.how = "returned"
     /\ history.prev.op = "scrape_premium_articles"
     /\ history.prev.login # "not_invoked")
    => selenium_driver # "open"

\* C36: at every moment the file is such that every Indexed row without a Scraped row
\* on disk would be selected again once the file is loaded by connect(): its Public is
\* null (scrape_public_articles takes it), or its Public is false and its Scraped is
\* false (scrape_premium_articles takes it).  In particular the on-disk Indexed table
\* holds no row with Public true whose Scraped row is not on disk.
C36_NoArticleUnreachable ==
    LET loaded == _load_table(db.file)
    IN  \A k \in 1..Len(loaded) :
           loaded[k].URL \notin URLs(db.file.tblArticlesScraped)
             => \/ loaded[k].Public = "None"
                \/ loaded[k].Public = "False" /\ ~loaded[k].Scraped

\* C37: no step of a running process loses a pending row: every row that is in the
\* Scraped or the Processed buffer before the step is on disk or still in its buffer
\* after it, whether the save_data calls of the step returned or raised; and every
\* article whose in-memory Scraped flag is true afterwards has its Scraped row on
\* disk or in the buffer.
C37_AppendKeepsPending ==
    [][(session = "open" /\ session' = "open")
          => /\ URLs(db.df_scraped_new)
                   \subseteq URLs(db'.file.tblArticlesScraped) \cup URLs(db'.df_scraped_new)
             /\ URLs(db.df_processed_new)
                   \subseteq URLs(db'.file.tblArticlesProcessed) \cup URLs(db'.df_processed_new)
             /\ flagged(db'.df_indexed, "Scraped")
                   \subseteq URLs(db'.file.tblArticlesScraped) \cup URLs(db'.df_scraped_new)]_vars

\* C38: between the operations of a running process, so after every connect, save_data
\* and close that has ended, by returning or by raising, the disposition of SIGINT is
\* the one the process started with: interrupts are not left ignored.
C38_InterruptRestored == session = "open" => db.sigint = "default"

\* no URL is listed on the archive pages of two days
DisjointListings ==
    \A d1, d2 \in Units :
        d1 # d2 => UnitURLs("index_articles_by_date_range", <<d1>>)
                      \cap UnitURLs("index_articles_by_date_range", <<d2>>) = {}

\* the days whose archive page lists an article that is stored for publisher me: with
\* pages that share no URL, the days that an index run handed to the adapter and
\* stored a row for
StoredDays(df, me) ==
    {day \in Units :
        \E k \in 1..Len(df) :
            /\ df[k].NewspaperID = me
            /\ df[k].URL \in UnitURLs("index_articles_by_date_range", <<day>>)}

\* C39: an index_articles_by_date_range call with skip_existing=True leaves out of
\* its range exactly the days that an earlier run handed to the adapter and stored a
\* row for: no day that was never processed counts as covered, and no processed
\* day that yielded an article counts as not covered.
C39_CoverageMatchesProcessing ==
    [][(/\ Started("index_articles_by_date_range")
        /\ StartedCall.args.skip
        /\ DisjointListings)
          => LET days == StartedCall.args.from[1]..StartedCall.args.to[1]
                 taken == {StartedCall.snapshot[k][1] : k \in 1..Len(StartedCall.snapshot)}
             IN  days \ taken = days \cap StoredDays(db.df_indexed, newspaper_id)]_vars

====
